---- MODULE Spec2Model ----
(***************************************************************************)
(* A model of datautils.py: the two DataFrame wrappers (ListDataFrame,     *)
(* ArrayDataFrame) as operations on the instance dictionary, and the       *)
(* composite-table reader's column materializer.                           *)
(*                                                                         *)
(* An instance is modelled by its __dict__: a function from attribute      *)
(* names to values.  The fields data, colNames, dict and nCols live in it  *)
(* beside the attributes that the name-binding methods create, exactly as  *)
(* in Python.  A method is an operator from the instance dictionary and    *)
(* the arguments to the dictionary it leaves behind and the exception it   *)
(* raised ("none" when it returned).                                       *)
(***************************************************************************)
EXTENDS Integers, Sequences, FiniteSets, TLC

\* ------------------------------------------------------------- bounds
\* number of data rows of every column
RowLen == 2
\* longest name list a caller passes
MaxNames == 2
\* most columns a frame grows to
MaxCols == 3
\* mutating calls after construction
MaxOps == 2
\* the same two bounds of the short runs (SpecShort)
ShortNames == 1
ShortOps == 1
\* most columns of a table that is read
MaxInCols == 3
\* most data rows of a table that is read
MaxRows == 2

\* ------------------------------------------------------------- values
\* A Python value: t is its type, ids the column/row numbers or the integer
\* it holds, ns a list of names (a name list, or a dict's keys in insertion
\* order), vs a dict's values in the order of its keys.
Val(t, ids, ns, vs) == [t |-> t, ids |-> ids, ns |-> ns, vs |-> vs]
VNone == Val("None", <<>>, <<>>, <<>>)
VInt(n) == Val("int", <<n>>, <<>>, <<>>)
\* the list of columns of a ListDataFrame; column c is an object of its own
VList(ids) == Val("list", ids, <<>>, <<>>)
\* the 2-D array of an ArrayDataFrame; ids are its column positions
VArray(ids) == Val("array", ids, <<>>, <<>>)
\* column c (ListDataFrame: the column object; ArrayDataFrame: the view [:,c])
VCol(c) == Val("col", <<c>>, <<>>, <<>>)
\* the number at row r (0-based) of column c
VElem(c, r) == Val("elem", <<c, r>>, <<>>, <<>>)
VNames(ns) == Val("names", <<>>, ns, <<>>)
VDict(ns, vs) == Val("dict", <<>>, ns, vs)

\* an operation's outcome: the instance dictionary and the exception
R(s, err) == [s |-> s, err |-> err]
\* an expression's outcome: the value and the exception
E(v, err) == [v |-> v, err |-> err]

Has(s, f) == f \in DOMAIN s
Put(s, k, v) == [x \in (DOMAIN s) \cup {k} |-> IF x = k THEN v ELSE s[x]]
Pop(s, k) == [x \in (DOMAIN s) \ {k} |-> s[x]]

\* first position of x in seq, 0 when absent (list.index)
IndexOf(seq, x) ==
  IF \E i \in 1..Len(seq) : seq[i] = x
  THEN CHOOSE i \in 1..Len(seq) : seq[i] = x /\ \A j \in 1..(i - 1) : seq[j] # x
  ELSE 0
InSeq(seq, x) == IndexOf(seq, x) # 0
SeqRange(seq) == {seq[i] : i \in 1..Len(seq)}

\* d[k] = v on a Python dict: a new key goes last, an old key keeps its place
DictSet(d, k, v) ==
  LET i == IndexOf(d.ns, k)
  IN IF i = 0
     THEN VDict(Append(d.ns, k), Append(d.vs, v))
     ELSE VDict(d.ns, [d.vs EXCEPT ![i] = v])
DictHas(d, k) == d.t = "dict" /\ InSeq(d.ns, k)
DictGet(d, k) == d.vs[IndexOf(d.ns, k)]

\* ------------------------------------------------------------- names
\* Column names are Python objects.  "<1.5>" stands for the float 1.5, a
\* name that is not a string; every other name is the string it shows.
FloatName == "<1.5>"
IsStr(n) == n # FloatName
\* str.split(): the whitespace-separated tokens of a name
Split(n) ==
  CASE n = "a x" -> <<"a", "x">>
    [] n = "" -> <<>>
    [] OTHER -> <<n>>
\* names that are one valid Python identifier
IsIdentifier(n) == IsStr(n) /\ Split(n) = <<n>>

CoreNames == {"a", "b", "a x", "", FloatName}

\* all name lists over U of length at most n
RECURSIVE SeqsUpTo(_, _)
SeqsUpTo(U, n) ==
  IF n = 0 THEN {<<>>}
  ELSE LET shorter == SeqsUpTo(U, n - 1)
       IN shorter \cup {Append(q, x) : q \in {p \in shorter : Len(p) = n - 1}, x \in U}
\* the name lists a caller draws from
CoreLists == SeqsUpTo(CoreNames, MaxNames)
ShortLists == SeqsUpTo(CoreNames, ShortNames)

\* ------------------------------------------------------------- state
VARIABLES
  kind,   \* "list": a ListDataFrame; "array": an ArrayDataFrame
  self,   \* the instance's __dict__
  last,   \* the call that produced this state: its name, arguments, exception
  nops,   \* calls made since construction
  textLines,  \* the lines handed to the table reader
  opts,       \* the reader's arguments intCols, convertSubLists, expandSubLists
  noConvert,  \* the caller's noConvert list, which the reader appends to
  ret,        \* the reader's outcome: the columns returned or the exception
  self2,      \* the __dict__ of a second instance
  callers,    \* two callers at work on the instances: each one's call, the
              \* place it has reached in it, its locals and its outcome
  history     \* the instances as they were before the callers began, and
              \* whether a caller has stepped while the other was in a call

vars == <<kind, self, last, nops, textLines, opts, noConvert, ret, self2, callers, history>>

\* one instance, one caller
Alone == self2 = <<>> /\ callers = <<>> /\ history = <<>>

\* ------------------------------------------------------------- field reads
\* self.data[i] (ListDataFrame) or self.data[:,i] (ArrayDataFrame), i 0-based
DataItem(k, s, i) ==
  IF ~Has(s, "data") THEN E(VNone, "AttributeError")
  ELSE LET d == s["data"]
       IN CASE d.t \in {"list", "array"} ->
                 IF i < Len(d.ids) THEN E(VCol(d.ids[i + 1]), "none")
                 ELSE E(VNone, "IndexError")
            [] d.t = "col" ->
                 \* data now names a column: a list of RowLen numbers, or a
                 \* 1-D view, which takes no second index
                 IF k = "list" /\ i < RowLen THEN E(VElem(d.ids[1], i), "none")
                 ELSE E(VNone, "IndexError")
            [] OTHER -> E(VNone, "TypeError")

\* range(self.nCols)
RangeNCols(s) ==
  IF ~Has(s, "nCols") THEN E(0, "AttributeError")
  ELSE IF s["nCols"].t = "int" THEN E(s["nCols"].ids[1], "none")
  ELSE E(0, "TypeError")

\* x in self.colNames
InColNames(s, x) ==
  IF ~Has(s, "colNames") THEN E(FALSE, "AttributeError")
  ELSE LET c == s["colNames"]
       IN CASE c.t = "names" -> E(InSeq(c.ns, x), "none")
            [] c.t = "col" -> E(FALSE, "none")
            [] OTHER -> E(FALSE, "TypeError")

\* obj[key]: a string goes to the name index, anything else to the storage
GetItem(s, key) ==
  IF IsStr(key)
  THEN IF ~Has(s, "dict") THEN E(VNone, "AttributeError")
       ELSE IF s["dict"].t # "dict" THEN E(VNone, "TypeError")
       ELSE IF ~DictHas(s["dict"], key) THEN E(VNone, "KeyError")
       ELSE E(DictGet(s["dict"], key), "none")
  ELSE E(VNone, "TypeError")

\* obj.name for a name-derived attribute
GetAttr(s, name) ==
  IF Has(s, name) THEN E(s[name], "none") ELSE E(VNone, "AttributeError")

\* ------------------------------------------------------------- name binding
\* One pass of the binding loop's try block for column i; an IndexError is
\* swallowed by the loop's except clause.
BindOne(k, s, columnNames, i) ==
  IF i >= Len(columnNames) THEN R(s, "none")
  ELSE LET colName == columnNames[i + 1]
           item == DataItem(k, s, i)
       IN IF item.err = "IndexError" THEN R(s, "none")
          ELSE IF item.err # "none" THEN R(s, item.err)
          ELSE IF ~Has(s, "dict") THEN R(s, "AttributeError")
          ELSE IF s["dict"].t # "dict" THEN R(s, "TypeError")
          ELSE LET s1 == Put(s, "dict", DictSet(s["dict"], colName, item.v))
               IN IF ~IsStr(colName) THEN R(s1, "none")
                  ELSE IF Split(colName) = <<>> THEN R(s1, "none")
                  ELSE R(Put(s1, Head(Split(colName)), item.v), "none")

\* for i in range(self.nCols): try: ... except IndexError: pass
RECURSIVE BindLoop(_, _, _, _, _)
BindLoop(k, s, columnNames, i, n) ==
  IF i >= n THEN R(s, "none")
  ELSE LET r == BindOne(k, s, columnNames, i)
       IN IF r.err # "none" THEN r ELSE BindLoop(k, r.s, columnNames, i + 1, n)

\* for oldName in self.dict: pop the attribute of every old name
RECURSIVE RemoveOld(_, _, _)
RemoveOld(s, keys, j) ==
  IF j > Len(keys) THEN R(s, "none")
  ELSE LET oldName == keys[j]
       IN IF ~IsStr(oldName) THEN R(s, "AttributeError")
          ELSE IF Split(oldName) = <<>> THEN R(s, "IndexError")
          ELSE LET oldName_attr == Head(Split(oldName))
               IN RemoveOld(IF Has(s, oldName_attr) THEN Pop(s, oldName_attr) ELSE s,
                            keys, j + 1)

\* if self.dict != {}: remove the old definitions; self.dict = {}
ClearOld(s) ==
  IF ~Has(s, "dict") THEN R(s, "AttributeError")
  ELSE LET d == s["dict"]
       IN CASE d.t = "dict" ->
                 IF d.ns = <<>> THEN R(s, "none")
                 ELSE LET r == RemoveOld(s, d.ns, 1)
                      IN IF r.err # "none" THEN r
                         ELSE R(Put(r.s, "dict", VDict(<<>>, <<>>)), "none")
            \* iterating a column yields numbers, which have no split()
            [] d.t = "col" -> R(s, "AttributeError")
            \* a number is not iterable
            [] OTHER -> R(s, "TypeError")

\* self.colNames = columnNames: the last line of ListDataFrame.SetColumns,
\* which ArrayDataFrame.SetColumns does not have
StoreColNames(k, s, columnNames) ==
  IF k = "list" THEN Put(s, "colNames", VNames(columnNames)) ELSE s

SetColumns(k, s, columnNames) ==
  LET r1 == ClearOld(s)
  IN IF r1.err # "none" THEN r1
     ELSE LET n == RangeNCols(r1.s)
          IN IF n.err # "none" THEN R(r1.s, n.err)
             ELSE LET r2 == BindLoop(k, r1.s, columnNames, 0, n.v)
                  IN IF r2.err # "none" THEN r2
                     ELSE R(StoreColNames(k, r2.s, columnNames), "none")

SetAltColumns(k, s, columnNames) ==
  LET n == RangeNCols(s)
  IN IF n.err # "none" THEN R(s, n.err)
     ELSE BindLoop(k, s, columnNames, 0, n.v)

\* ListDataFrame only
AddColumnName(s, oldName, newName) ==
  IF ~IsStr(newName) THEN R(s, "KeyError")
  ELSE LET inNew == InColNames(s, newName)
           inOld == InColNames(s, oldName)
       IN IF inNew.err # "none" THEN R(s, inNew.err)
          ELSE IF inNew.v THEN R(s, "KeyError")
          ELSE IF ~inOld.v THEN R(s, "KeyError")
          ELSE IF ~Has(s, "dict") THEN R(s, "AttributeError")
          ELSE IF s["dict"].t # "dict" THEN R(s, "TypeError")
          ELSE IF ~DictHas(s["dict"], oldName) THEN R(s, "KeyError")
          ELSE LET column == DictGet(s["dict"], oldName)
                   s1 == Put(s, "dict", DictSet(s["dict"], newName, column))
               IN IF Split(newName) = <<>> THEN R(s1, "IndexError")
                  ELSE R(Put(s1, Head(Split(newName)), column), "none")

\* newList = colNames[:]; insert newName at index(oldName); remove(oldName)
ReplaceName(names, oldName, newName) ==
  LET i_old == IndexOf(names, oldName)
  IN [j \in 1..Len(names) |-> IF j = i_old THEN newName ELSE names[j]]

\* the clean-up after SetColumns: the test is on oldName, the pop on its
\* first token
PopOldAttr(s, oldName) ==
  IF ~IsStr(oldName) THEN R(s, "AttributeError")
  ELSE IF Split(oldName) = <<>> THEN R(s, "IndexError")
  ELSE LET oldName_attr == Head(Split(oldName))
       IN IF Has(s, oldName)
          THEN IF Has(s, oldName_attr) THEN R(Pop(s, oldName_attr), "none")
               ELSE R(s, "KeyError")
          ELSE R(s, "none")

\* a ChangeColumnName that drops the old definitions before it looks for
\* oldName
ChangeColumnName_ClearFirst(k, s, oldName, newName) ==
  LET inOld == InColNames(s, oldName)
  IN IF inOld.err # "none" THEN R(s, inOld.err)
     ELSE IF ~inOld.v THEN R(ClearOld(s).s, "KeyError")
     ELSE LET newList == ReplaceName(s["colNames"].ns, oldName, newName)
              r == SetColumns(k, s, newList)
          IN IF r.err # "none" THEN r ELSE PopOldAttr(r.s, oldName)

ChangeColumnName(k, s, oldName, newName) ==
  LET inOld == InColNames(s, oldName)
  IN IF inOld.err # "none" THEN R(s, inOld.err)
     ELSE IF ~inOld.v THEN R(s, "KeyError")
     ELSE LET newList == ReplaceName(s["colNames"].ns, oldName, newName)
              r == SetColumns(k, s, newList)
          IN IF r.err # "none" THEN r ELSE PopOldAttr(r.s, oldName)

\* a caller's column: its type and its length
Column(type, len) == [type |-> type, len |-> len]
NoName == "<None>"
\* the types AddNewColumn accepts: list and numpy.ndarray
ColumnTypes == {"list", "array"}

\* an AddNewColumn that appends before it compares the lengths
AddNewColumn_AppendFirst(s, dataColumn, columnName) ==
  IF dataColumn.type \notin ColumnTypes THEN R(s, "TypeError")
  ELSE LET first == DataItem("list", s, 0)
       IN IF first.err # "none" THEN R(s, first.err)
          ELSE IF first.v.t # "col" THEN R(s, "TypeError")
          ELSE IF s["data"].t # "list" THEN R(s, "AttributeError")
          ELSE LET ids == s["data"].ids
                   s1 == Put(s, "data", VList(Append(ids, Len(ids) + 1)))
               IN IF ~Has(s1, "nCols") THEN R(s1, "AttributeError")
                  ELSE IF s1["nCols"].t # "int" THEN R(s1, "TypeError")
                  ELSE LET s2 == Put(s1, "nCols", VInt(s1["nCols"].ids[1] + 1))
                       IN IF dataColumn.len # RowLen THEN R(s2, "TypeError")
                          ELSE IF columnName = NoName \/ s2["colNames"].t = "None"
                          THEN R(s2, "none")
                          ELSE SetColumns("list", s2,
                                          Append(s2["colNames"].ns, columnName))

\* ListDataFrame only
AddNewColumn(s, dataColumn, columnName) ==
  IF dataColumn.type \notin ColumnTypes THEN R(s, "TypeError")
  ELSE LET first == DataItem("list", s, 0)
       IN IF first.err # "none" THEN R(s, first.err)
          \* len() of a number
          ELSE IF first.v.t # "col" THEN R(s, "TypeError")
          ELSE IF dataColumn.len # RowLen THEN R(s, "TypeError")
          ELSE IF s["data"].t # "list" THEN R(s, "AttributeError")
          ELSE LET ids == s["data"].ids
                   s1 == Put(s, "data", VList(Append(ids, Len(ids) + 1)))
               IN IF ~Has(s1, "nCols") THEN R(s1, "AttributeError")
                  ELSE IF s1["nCols"].t # "int" THEN R(s1, "TypeError")
                  ELSE LET s2 == Put(s1, "nCols", VInt(s1["nCols"].ids[1] + 1))
                       IN IF columnName = NoName \/ s2["colNames"].t = "None"
                          THEN R(s2, "none")
                          ELSE SetColumns("list", s2,
                                          Append(s2["colNames"].ns, columnName))

\* ------------------------------------------------------------- construction
\* __init__: the fields, then SetColumns when names are given
New(k, nCols, columnNames) ==
  LET ids == [i \in 1..nCols |-> i]
      s0 == [f \in {"data", "colNames", "dict", "nCols"} |->
               CASE f = "data" -> IF k = "list" THEN VList(ids) ELSE VArray(ids)
                 [] f = "colNames" -> columnNames
                 [] f = "dict" -> VDict(<<>>, <<>>)
                 [] OTHER -> VInt(nCols)]
  IN IF columnNames.t = "None" THEN R(s0, "none")
     ELSE SetColumns(k, s0, columnNames.ns)

\* ------------------------------------------------------------- table reader
\* A text line is the sequence of its tokens: the fields and the blanks
\* between them.  A field is a text without blanks; the converted cells of
\* a column are the texts Python shows for them ("1.0" for the float 1.0).
Blank == " "
Fields == {"1", "x", "{3,4}", "{5}"}

\* line.split(None): the fields between the blanks
SplitLine(line) == SelectSeq(line, LAMBDA tok : tok # Blank)

\* the other tokens of a line: the comma, and the characters that may be
\* skip markers; a marker is a token of its own, followed by a blank
Comma == ","
Markers == {"#", "%"}
\* delimiter=None
NoDelimiter == "<None>"

\* line.lstrip(chars), line.rstrip(chars), line.strip(chars) for a set of
\* one-character tokens
RECURSIVE LStrip(_, _)
LStrip(line, chars) ==
  IF line # <<>> /\ Head(line) \in chars THEN LStrip(Tail(line), chars) ELSE line
RECURSIVE RStrip(_, _)
RStrip(line, chars) ==
  IF line # <<>> /\ line[Len(line)] \in chars
  THEN RStrip(SubSeq(line, 1, Len(line) - 1), chars)
  ELSE line
Strip(line, chars) == RStrip(LStrip(line, chars), chars)

\* the text of a run of tokens
RECURSIVE Text(_)
Text(run) == IF run = <<>> THEN "" ELSE Head(run) \o Text(Tail(run))

\* float(x): the float shown as text, NotANumber where it raises ValueError
NotANumber == "<ValueError>"
FloatOf(x) ==
  CASE x \in {"1", "1.0"} -> "1.0"
    [] x \in {"2", "2.0"} -> "2.0"
    [] x = "2.5" -> "2.5"
    [] x = "3.5" -> "3.5"
    [] x \in {"6", "6.0"} -> "6.0"
    [] x \in {"7", "7.0"} -> "7.0"
    [] x \in {"8", "8.0"} -> "8.0"
    [] x = "-1.0" -> "-1.0"
    [] x \in {"3", "3.0"} -> "3.0"
    [] x \in {"4", "4.0"} -> "4.0"
    [] x \in {"5", "5.0"} -> "5.0"
    [] x = "0.0" -> "0.0"
    [] OTHER -> NotANumber
IsNumber(x) == FloatOf(x) # NotANumber
\* the conversion of one entry to Int64
IntOf(x) ==
  CASE x \in {"1", "1.0"} -> "1"
    [] x \in {"2", "2.0"} -> "2"
    [] x \in {"3", "3.0"} -> "3"
    [] x \in {"4", "4.0"} -> "4"
    [] x \in {"5", "5.0"} -> "5"
    [] x = "0.0" -> "0"
    [] OTHER -> NotANumber
\* text.find("{") >= 0
HasBrace(x) == x \in {"{3,4}", "{5}", "{3", "{3,4,5}", "{6,7,8}"}
\* text.split(",")
SplitComma(x) ==
  CASE x = "{3,4}" -> <<"{3", "4}">>
    [] x = "{3,4,5}" -> <<"{3", "4", "5}">>
    [] x = "{6,7,8}" -> <<"{6", "7", "8}">>
    [] OTHER -> <<x>>
\* text.strip().strip("{").strip("}").split(",")
BareParts(x) ==
  CASE x = "{3,4}" -> <<"3", "4">>
    [] x = "{5}" -> <<"5">>
    [] x = "{3" -> <<"3">>
    [] x = "4}" -> <<"4">>
    [] x = "{3,4,5}" -> <<"3", "4", "5">>
    [] x = "{6,7,8}" -> <<"6", "7", "8">>
    [] OTHER -> <<x>>
\* the default blankVal, 0, as it shows in a float array
BlankVal == "0.0"

\* line.split(","): the runs of tokens between the commas; a field with
\* commas inside is cut at them like the rest of the line
RECURSIVE CutAtCommas(_)
CutAtCommas(line) ==
  IF line = <<>> THEN << <<>> >>
  ELSE LET rest == CutAtCommas(Tail(line))
       IN IF Head(line) = Comma THEN << <<>> >> \o rest
          ELSE LET parts == SplitComma(Head(line))
                   n == Len(parts)
               IN [k \in 1..(n - 1) |-> <<parts[k]>>]
                  \o << <<parts[n]>> \o Head(rest) >> \o Tail(rest)

\* line.split(delimiter): the texts of the pieces
SplitBy(line, delimiter) ==
  IF delimiter = NoDelimiter THEN SplitLine(line)
  ELSE LET runs == CutAtCommas(line) IN [k \in 1..Len(runs) |-> Text(runs[k])]

\* a column of the result: t is "strings" (a list of the texts as read),
\* "float" or "int" (an array; cells are its entries), or "arrays" (a list
\* of float arrays; subs are their entries)
Col(t, cells, subs) == [t |-> t, cells |-> cells, subs |-> subs]

\* a conversion to Int64 that puts 0 where an entry does not parse
ToInt_Substitute(col) ==
  E(Col("int",
        [r \in 1..Len(col.cells) |->
           IF IntOf(col.cells[r]) = NotANumber THEN "0" ELSE IntOf(col.cells[r])],
        <<>>),
    "none")

\* numpy.array(column, "Int64")
ToInt(col) ==
  IF \E r \in 1..Len(col.cells) : IntOf(col.cells[r]) = NotANumber
  THEN E(col, "ValueError")
  ELSE E(Col("int", [r \in 1..Len(col.cells) |-> IntOf(col.cells[r])], <<>>), "none")

\* a conversion that looks at every row again: a column with an entry
\* that is no number stays a list of strings
ColumnToFloats_Resniff(inputList, blankValue) ==
  IF \A r \in 1..Len(inputList.cells) : IsNumber(inputList.cells[r])
  THEN Col("float", [r \in 1..Len(inputList.cells) |-> FloatOf(inputList.cells[r])], <<>>)
  ELSE inputList

\* numpy.array(inputList, "Float64") when every entry parses; otherwise
\* entry by entry, blankValue where float() raises
ColumnToFloats(inputList, blankValue) ==
  IF \A r \in 1..Len(inputList.cells) : IsNumber(inputList.cells[r])
  THEN Col("float", [r \in 1..Len(inputList.cells) |-> FloatOf(inputList.cells[r])], <<>>)
  ELSE Col("float",
           [r \in 1..Len(inputList.cells) |->
              IF IsNumber(inputList.cells[r]) THEN FloatOf(inputList.cells[r])
              ELSE blankValue],
           <<>>)

\* the exception of "for i in range(nSubLists): float(pp[i])" on one chunk
ChunkError(textChunk, nSubLists) ==
  LET pp == BareParts(textChunk)
      bad == {i \in 1..nSubLists : i > Len(pp) \/ ~IsNumber(pp[i])}
  IN IF bad = {} THEN "none"
     ELSE LET i == CHOOSE j \in bad : \A k \in bad : j <= k
          IN IF i > Len(pp) THEN "IndexError" ELSE "ValueError"

\* an extraction that gives one array per row, not one per position
ExtractSubLists_ByRow(textList, nSubLists) ==
  IF textList.t # "strings" THEN E(<<>>, "AttributeError")
  ELSE E([r \in 1..Len(textList.cells) |->
            Col("float",
                [i \in 1..Len(BareParts(textList.cells[r])) |->
                   FloatOf(BareParts(textList.cells[r])[i])],
                <<>>)],
         "none")

\* the nSubLists float arrays of a column of "{x1,...,xn}" texts
ExtractSubLists(textList, nSubLists) ==
  IF textList.t # "strings" THEN E(<<>>, "AttributeError")
  ELSE LET cells == textList.cells
           badRows == {r \in 1..Len(cells) : ChunkError(cells[r], nSubLists) # "none"}
       IN IF badRows # {}
          THEN LET r == CHOOSE q \in badRows : \A k \in badRows : q <= k
               IN E(<<>>, ChunkError(cells[r], nSubLists))
          ELSE E([i \in 1..nSubLists |->
                    Col("float",
                        [r \in 1..Len(cells) |-> FloatOf(BareParts(cells[r])[i])],
                        <<>>)],
                 "none")

\* ii is 0-based; "del theList[ii]" raises at ii = len(theList)
InsertAndReplace(theList, i0, newItems) ==
  IF i0 < 0 \/ i0 > Len(theList) THEN E(theList, "none")
  ELSE IF i0 = Len(theList) THEN E(theList, "IndexError")
  ELSE E(SubSeq(theList, 1, i0) \o newItems \o SubSeq(theList, i0 + 2, Len(theList)),
         "none")

\* [str(k) for k in range(nSubLists)]
NumberSuffixes(nSubLists) == [k \in 1..nSubLists |-> ToString(k - 1)]

\* the loop of AddExtraColumnNames, from sub-list column i on: the names of
\* baseName's sub-lists go where list.index finds baseName
RECURSIVE AddNamesLoop(_, _, _, _, _)
AddNamesLoop(columnNames, oldColNames, subListLengths, subListSuffixes, i) ==
  IF i >= Len(oldColNames) THEN E(columnNames, "none")
  ELSE LET baseName == oldColNames[i + 1]
           nSubLists == subListLengths[i + 1]
           suffixes == IF subListSuffixes.t # "None"
                          /\ Len(subListSuffixes.ns) = nSubLists
                       THEN subListSuffixes.ns
                       ELSE NumberSuffixes(nSubLists)
           newNames == [k \in 1..nSubLists |-> baseName \o "_" \o suffixes[k]]
           insertLoc == IndexOf(columnNames, baseName) - 1
       IN IF insertLoc < 0 THEN E(columnNames, "ValueError")
          ELSE LET l == InsertAndReplace(columnNames, insertLoc, newNames)
               IN IF l.err # "none" THEN l
                  ELSE AddNamesLoop(l.v, oldColNames, subListLengths,
                                    subListSuffixes, i + 1)

\* subListColumns are 0-based; columnNames[i] raises IndexError when the
\* header has fewer names than that
AddExtraColumnNames(columnNames, subListColumns, subListLengths, subListSuffixes) ==
  IF \E j \in 1..Len(subListColumns) : subListColumns[j] >= Len(columnNames)
  THEN E(columnNames, "IndexError")
  ELSE AddNamesLoop(columnNames,
                    [j \in 1..Len(subListColumns) |-> columnNames[subListColumns[j] + 1]],
                    subListLengths, subListSuffixes, 0)

\* the sniffer's loop over row 0, from column i (0-based) on; w holds
\* noConvert, subListCols, subListLengths (0 where the dict has no entry),
\* subListLengthList and subListsFound
RECURSIVE Sniff(_, _, _, _, _)
Sniff(pp, intCols, convertSubLists, i, w) ==
  IF i >= Len(pp) THEN w
  ELSE LET x == pp[i + 1]
           w1 == IF InSeq(intCols, i) \/ InSeq(w.noConvert, i) THEN w
                 ELSE IF IsNumber(x) THEN w
                 ELSE IF convertSubLists /\ HasBrace(x)
                 THEN [w EXCEPT !.subListsFound = TRUE,
                                !.subListCols = Append(w.subListCols, i),
                                !.subListLengthList =
                                   Append(w.subListLengthList, Len(SplitComma(x))),
                                !.subListLengths[i + 1] = Len(SplitComma(x))]
                 ELSE [w EXCEPT !.noConvert = Append(w.noConvert, i)]
       IN Sniff(pp, intCols, convertSubLists, i + 1, w1)

\* the master list of input columns, built column by column: column i holds
\* field i of every data row
RECURSIVE FirstColumns(_, _, _)
FirstColumns(dlines, delimiter, n) ==
  IF n = 0 THEN <<>>
  ELSE Append(FirstColumns(dlines, delimiter, n - 1),
              Col("strings",
                  [r \in 1..Len(dlines) |-> SplitBy(dlines[r], delimiter)[n]], <<>>))
DataList(dlines, delimiter) ==
  FirstColumns(dlines, delimiter, Len(SplitBy(dlines[1], delimiter)))
\* pieces[i] raises IndexError on a row with fewer pieces than row 0
ShortRow(dlines, delimiter) ==
  \E r \in 1..Len(dlines) :
    Len(SplitBy(dlines[r], delimiter)) < Len(SplitBy(dlines[1], delimiter))

\* the "normal" loop, from column i on: the number of columns is unchanged
RECURSIVE ConvertLoop(_, _, _, _, _, _)
ConvertLoop(dataList, intCols, convertSubLists, blankVal, w, i) ==
  IF i >= Len(dataList) THEN E(dataList, "none")
  ELSE IF InSeq(intCols, i)
  THEN LET c == ToInt(dataList[i + 1])
       IN IF c.err # "none" THEN E(dataList, c.err)
          ELSE ConvertLoop([dataList EXCEPT ![i + 1] = c.v],
                           intCols, convertSubLists, blankVal, w, i + 1)
  ELSE IF convertSubLists /\ InSeq(w.subListCols, i)
  THEN LET x == ExtractSubLists(dataList[i + 1], w.subListLengths[i + 1])
       IN IF x.err # "none" THEN E(dataList, x.err)
          ELSE ConvertLoop([dataList EXCEPT ![i + 1] =
                              Col("arrays", <<>>,
                                  [k \in 1..Len(x.v) |-> x.v[k].cells])],
                           intCols, convertSubLists, blankVal, w, i + 1)
  ELSE IF ~InSeq(w.noConvert, i)
  THEN ConvertLoop([dataList EXCEPT ![i + 1] = ColumnToFloats(dataList[i + 1], blankVal)],
                   intCols, convertSubLists, blankVal, w, i + 1)
  ELSE ConvertLoop(dataList, intCols, convertSubLists, blankVal, w, i + 1)

\* an index that forgets the columns added so far
ii_NoOffset(i_orig, nAddedCols) == i_orig

\* the index into the current version of dataList
ii(i_orig, nAddedCols) == i_orig + nAddedCols

\* the expanding loop, from original column i_orig on
RECURSIVE ExpandLoop(_, _, _, _, _, _, _)
ExpandLoop(dataList, nInputCols, intCols, blankVal, w, i_orig, nAddedCols) ==
  IF i_orig >= nInputCols THEN E(dataList, "none")
  ELSE LET at == ii(i_orig, nAddedCols)
       IN IF InSeq(intCols, i_orig)
          THEN LET c == ToInt(dataList[at + 1])
               IN IF c.err # "none" THEN E(dataList, c.err)
                  ELSE ExpandLoop([dataList EXCEPT ![at + 1] = c.v],
                                  nInputCols, intCols, blankVal, w, i_orig + 1, nAddedCols)
          ELSE IF InSeq(w.subListCols, i_orig)
          THEN LET n == w.subListLengths[i_orig + 1]
                   x == ExtractSubLists(dataList[at + 1], n)
               IN IF x.err # "none" THEN E(dataList, x.err)
                  ELSE LET l == InsertAndReplace(dataList, at, x.v)
                       IN IF l.err # "none" THEN l
                          ELSE ExpandLoop(l.v, nInputCols, intCols, blankVal, w,
                                          i_orig + 1, nAddedCols + n - 1)
          ELSE IF ~InSeq(w.noConvert, i_orig)
          THEN ExpandLoop([dataList EXCEPT ![at + 1] =
                             ColumnToFloats(dataList[at + 1], blankVal)],
                          nInputCols, intCols, blankVal, w, i_orig + 1, nAddedCols)
          ELSE ExpandLoop(dataList, nInputCols, intCols, blankVal, w, i_orig + 1, nAddedCols)

\* the data lines: not blank, first character not in skip; rstrip()ped
DataLines(lines, skip) ==
  LET kept == SelectSeq(lines, LAMBDA line : Strip(line, {Blank}) # <<>>
                                             /\ Head(line) \notin skip)
  IN [k \in 1..Len(kept) |-> RStrip(kept[k], {Blank})]

\* [p.strip() for p in colHeaderLine.split(delimiter)]
HeaderNames(colHeaderLine, delimiter) ==
  IF delimiter = NoDelimiter THEN SplitLine(colHeaderLine)
  ELSE LET runs == CutAtCommas(colHeaderLine)
       IN [k \in 1..Len(runs) |-> Text(Strip(runs[k], {Blank}))]

\* the outcome of a read: the columns, the exception, the caller's
\* noConvert list as the read leaves it, colNames at the return, and the
\* ListDataFrame built when dataFrame is set
Outcome(cols, err, nc, colNames, frame) ==
  [cols |-> cols, err |-> err, noConvert |-> nc, colNames |-> colNames, frame |-> frame]

\* both readers from "pp = dlines[0].split(delimiter)" on: sniffer, master
\* list, conversion, names of the added columns, the frame
ReadColumns(dlines, colNames, o, nc) ==
  IF dlines = <<>> THEN Outcome(<<>>, "IndexError", nc, colNames, <<>>)
  ELSE
  LET convertSubLists == o.expandSubLists \/ o.convertSubLists
      pp == SplitBy(dlines[1], o.delimiter)
      nInputCols == Len(pp)
      w == Sniff(pp, o.intCols, convertSubLists, 0,
                 [noConvert |-> nc, subListCols |-> <<>>,
                  subListLengths |-> [i \in 1..nInputCols |-> 0],
                  subListLengthList |-> <<>>,
                  subListsFound |-> FALSE])
  IN IF ShortRow(dlines, o.delimiter)
     THEN Outcome(<<>>, "IndexError", w.noConvert, colNames, <<>>)
     ELSE
     LET dataList == DataList(dlines, o.delimiter)
         m == IF ~o.expandSubLists
              THEN ConvertLoop(dataList, o.intCols, convertSubLists, o.blankVal, w, 0)
              ELSE ExpandLoop(dataList, nInputCols, o.intCols, o.blankVal, w, 0, 0)
     IN IF m.err # "none" THEN Outcome(<<>>, m.err, w.noConvert, colNames, <<>>)
        ELSE
        LET a == IF o.expandSubLists /\ w.subListsFound /\ colNames.t # "None"
                 THEN AddExtraColumnNames(colNames.ns, w.subListCols,
                                          w.subListLengthList, o.subListSuffixes)
                 ELSE E(colNames.ns, "none")
            names == IF colNames.t = "None" THEN VNone ELSE VNames(a.v)
        IN IF a.err # "none" THEN Outcome(<<>>, a.err, w.noConvert, names, <<>>)
           ELSE IF ~o.dataFrame THEN Outcome(m.v, "none", w.noConvert, names, <<>>)
           ELSE LET f == New("list", Len(m.v), names)
                IN IF f.err # "none" THEN Outcome(<<>>, f.err, w.noConvert, names, <<>>)
                   ELSE Outcome(m.v, "none", w.noConvert, names, f.s)

\* columnRow is an int within the lines
HasColumnRow(columnRow, nAllRows) ==
  columnRow.t = "int" /\ columnRow.ids[1] >= 0 /\ columnRow.ids[1] < nAllRows

\* the read of a list of lines: the header is textLines[columnRow] with the
\* skip characters stripped from both ends
ReadCompositeTableFromText(lines, o, nc) ==
  LET dlines == DataLines(lines, o.skip)
      colNames == IF HasColumnRow(o.columnRow, Len(lines))
                  THEN VNames(HeaderNames(Strip(lines[o.columnRow.ids[1] + 1], o.skip),
                                          o.delimiter))
                  ELSE VNone
  IN ReadColumns(dlines, colNames, o, nc)

\* the read of a file holding these lines, each ended by a newline: the
\* header is the line read with "#" stripped; the newline at its end keeps
\* the strip from going on there
ReadCompositeTable(lines, o, nc) ==
  LET dlines == DataLines(lines, o.skip)
      colNames == IF HasColumnRow(o.columnRow, Len(lines))
                  THEN VNames(HeaderNames(LStrip(lines[o.columnRow.ids[1] + 1], {"#"}),
                                          o.delimiter))
                  ELSE VNone
  IN ReadColumns(dlines, colNames, o, nc)

\* the arguments' defaults, but for the lists
DefaultOpts ==
  [skip |-> {"#"}, delimiter |-> NoDelimiter, blankVal |-> BlankVal,
   dataFrame |-> FALSE, columnRow |-> VNone, subListSuffixes |-> VNone]

\* the reader's arguments: the defaults with these three set
Opts(intCols, convertSubLists, expandSubLists) ==
  [f \in DOMAIN DefaultOpts \cup {"intCols", "convertSubLists", "expandSubLists"} |->
     CASE f = "intCols" -> intCols
       [] f = "convertSubLists" -> convertSubLists
       [] f = "expandSubLists" -> expandSubLists
       [] OTHER -> DefaultOpts[f]]

\* the reader before a read
NoOpts == Opts(<<>>, FALSE, FALSE)
NoRet == [done |-> FALSE, by |-> "none", err |-> "none", cols |-> <<>>, colNames |-> VNone]

\* ------------------------------------------------------------- actions
Call(op, names, old, new, col, err) ==
  [op |-> op, names |-> names, old |-> old, new |-> new, col |-> col, err |-> err]
NoColumn == Column("none", 0)

\* the columns a caller may pass to AddNewColumn: a list or an array of the
\* right length, a list of another length, something that is neither
Columns ==
  {Column("list", RowLen), Column("array", RowLen),
   Column("list", RowLen + 1), Column("tuple", RowLen)}

\* a frame as its constructor leaves it; a construction that raises leaves
\* no frame
InitFrame(Lists) ==
  /\ kind \in {"list", "array"}
  /\ nops = 0
  /\ textLines = <<>> /\ opts = NoOpts /\ noConvert = <<>> /\ ret = NoRet
  /\ Alone
  /\ \E n \in 1..(MaxCols - 1) :
       \E columnNames \in {VNone} \cup {VNames(l) : l \in Lists} :
         LET r == New(kind, n, columnNames)
         IN /\ r.err = "none"
            /\ self = r.s
            /\ last = Call("New", columnNames.ns, "", "", NoColumn, "none")

DoSetColumns(Lists, D) ==
  /\ nops < D
  /\ \E l \in Lists :
       LET r == SetColumns(kind, self, l)
       IN /\ self' = r.s
          /\ last' = Call("SetColumns", l, "", "", NoColumn, r.err)
  /\ nops' = nops + 1
  /\ UNCHANGED <<kind, textLines, opts, noConvert, ret, self2, callers, history>>

DoSetAltColumns(Lists, D) ==
  /\ nops < D
  /\ \E l \in Lists :
       LET r == SetAltColumns(kind, self, l)
       IN /\ self' = r.s
          /\ last' = Call("SetAltColumns", l, "", "", NoColumn, r.err)
  /\ nops' = nops + 1
  /\ UNCHANGED <<kind, textLines, opts, noConvert, ret, self2, callers, history>>

DoAddColumnName(Names, D) ==
  /\ nops < D
  /\ kind = "list"
  /\ \E oldName \in Names, newName \in Names :
       LET r == AddColumnName(self, oldName, newName)
       IN /\ self' = r.s
          /\ last' = Call("AddColumnName", <<>>, oldName, newName, NoColumn, r.err)
  /\ nops' = nops + 1
  /\ UNCHANGED <<kind, textLines, opts, noConvert, ret, self2, callers, history>>

DoChangeColumnName(Names, D) ==
  /\ nops < D
  /\ \E oldName \in Names, newName \in Names :
       LET r == ChangeColumnName(kind, self, oldName, newName)
       IN /\ self' = r.s
          /\ last' = Call("ChangeColumnName", <<>>, oldName, newName, NoColumn, r.err)
  /\ nops' = nops + 1
  /\ UNCHANGED <<kind, textLines, opts, noConvert, ret, self2, callers, history>>

DoAddNewColumn(Names, D) ==
  /\ nops < D
  /\ kind = "list"
  /\ Has(self, "data") /\ Len(self["data"].ids) < MaxCols
  /\ \E dataColumn \in Columns, columnName \in Names \cup {NoName} :
       LET r == AddNewColumn(self, dataColumn, columnName)
       IN /\ self' = r.s
          /\ last' = Call("AddNewColumn", <<>>, "", columnName, dataColumn, r.err)
  /\ nops' = nops + 1
  /\ UNCHANGED <<kind, textLines, opts, noConvert, ret, self2, callers, history>>

Init == InitFrame(CoreLists)

Next ==
  \/ DoSetColumns(CoreLists, MaxOps)
  \/ DoSetAltColumns(CoreLists, MaxOps)
  \/ DoAddColumnName(CoreNames, MaxOps)
  \/ DoChangeColumnName(CoreNames, MaxOps)
  \/ DoAddNewColumn(CoreNames, MaxOps)

Spec == Init /\ [][Next]_vars

\* the same frames and calls with shorter name lists and fewer calls
InitShort == InitFrame(ShortLists)

NextShort ==
  \/ DoSetColumns(ShortLists, ShortOps)
  \/ DoSetAltColumns(ShortLists, ShortOps)
  \/ DoAddColumnName(CoreNames, ShortOps)
  \/ DoChangeColumnName(CoreNames, ShortOps)
  \/ DoAddNewColumn(CoreNames, ShortOps)

SpecShort == InitShort /\ [][NextShort]_vars

\* frames and calls whose column names include the names of the frame's own
\* fields
FieldNames == {"a", "data", "dict", "nCols", "colNames"}
FieldLists == SeqsUpTo(FieldNames, MaxNames)

InitFields == InitFrame(FieldLists)

NextFields ==
  \/ DoSetColumns(FieldLists, ShortOps)
  \/ DoSetAltColumns(FieldLists, ShortOps)
  \/ DoAddColumnName(FieldNames, ShortOps)
  \/ DoChangeColumnName(FieldNames, ShortOps)
  \/ DoAddNewColumn(FieldNames, ShortOps)

SpecFields == InitFields /\ [][NextFields]_vars

\* ------------------------------------------------------------- reads
\* the line of a row of fields
JoinLine(fields) ==
  [k \in 1..(2 * Len(fields) - 1) |->
     IF k % 2 = 1 THEN fields[(k + 1) \div 2] ELSE Blank]

\* the tables of 1..MaxRows rows that begin with this row: every row is the
\* first row again, but for at most one field of one later row
ChangedRows(row, m, r, j, f) ==
  [q \in 1..m |->
     IF q = r THEN [k \in 1..Len(row) |-> IF k = j THEN f ELSE row[k]] ELSE row]
TablesOf(row) ==
  UNION {{[q \in 1..m |-> row]}
         \cup {ChangedRows(row, m, r, j, f) :
                 r \in 2..m, j \in 1..Len(row), f \in Fields} : m \in 1..MaxRows}

\* the tables read: 1..MaxInCols columns
Tables == UNION {TablesOf(row) : row \in UNION {[1..n -> Fields] : n \in 1..MaxInCols}}
TextTables == {[r \in 1..Len(tb) |-> JoinLine(tb[r])] : tb \in Tables}

\* the intCols and noConvert lists a caller passes
TagLists == {<<>>, <<0>>, <<1>>}

InitRead ==
  /\ textLines \in TextTables
  /\ \E intCols \in TagLists, convertSubLists \in BOOLEAN, expandSubLists \in BOOLEAN :
       /\ ~(convertSubLists /\ expandSubLists)
       /\ opts = Opts(intCols, convertSubLists, expandSubLists)
  /\ noConvert \in TagLists
  /\ ret = NoRet /\ Alone
  /\ kind = "none" /\ self = <<>> /\ nops = 0
  /\ last = Call("none", <<>>, "", "", NoColumn, "none")

\* a read's effects: the outcome, the caller's noConvert list, and the
\* frame returned when dataFrame is set
Returned(by, r) ==
  /\ ret' = [done |-> TRUE, by |-> by, err |-> r.err, cols |-> r.cols,
             colNames |-> r.colNames]
  /\ noConvert' = r.noConvert
  /\ IF opts.dataFrame /\ r.err = "none"
     THEN kind' = "list" /\ self' = r.frame
     ELSE UNCHANGED <<kind, self>>
  /\ UNCHANGED <<textLines, opts, last, nops, self2, callers, history>>

DoRead ==
  /\ ~ret.done
  /\ Returned("text", ReadCompositeTableFromText(textLines, opts, noConvert))

DoReadFile ==
  /\ ~ret.done
  /\ Returned("file", ReadCompositeTable(textLines, opts, noConvert))

NextRead == DoRead

SpecRead == InitRead /\ [][NextRead]_vars

\* reads of tables under a header line "# n1 ... nk" of as many names as
\* the table has columns, into a ListDataFrame
HeaderWords == {"a", "b", "a_0"}
HeaderLine(names) == <<"#", Blank>> \o JoinLine(names)
FirstRows == UNION {[1..n -> Fields] : n \in 1..MaxInCols}
HeadedTables ==
  {<<HeaderLine(names), JoinLine(row)>> :
     <<names, row>> \in {<<h, f>> \in (UNION {[1..n -> HeaderWords] : n \in 1..MaxInCols})
                                       \X FirstRows : Len(h) = Len(f)}}
SuffixLists == {VNone, VNames(<<"p">>), VNames(<<"p", "q">>)}

InitNames ==
  /\ textLines \in HeadedTables
  /\ \E intCols \in {<<>>, <<0>>}, expandSubLists \in BOOLEAN, suffixes \in SuffixLists :
       opts = [Opts(intCols, FALSE, expandSubLists) EXCEPT
                 !.columnRow = VInt(0), !.dataFrame = TRUE,
                 !.subListSuffixes = suffixes]
  /\ noConvert = <<>>
  /\ ret = NoRet /\ Alone
  /\ kind = "none" /\ self = <<>> /\ nops = 0
  /\ last = Call("none", <<>>, "", "", NoColumn, "none")

NextNames == DoRead \/ DoReadFile

SpecNames == InitNames /\ [][NextNames]_vars

\* reads of narrow tables with a blank value of the caller's
BlankVals == {BlankVal, "-1.0"}
NarrowTables ==
  UNION {TablesOf(row) : row \in UNION {[1..n -> Fields] : n \in 1..(MaxInCols - 1)}}

InitBlank ==
  /\ textLines \in {[r \in 1..Len(tb) |-> JoinLine(tb[r])] : tb \in NarrowTables}
  /\ \E intCols \in TagLists, convertSubLists \in BOOLEAN, expandSubLists \in BOOLEAN,
        blankVal \in BlankVals :
       /\ ~(convertSubLists /\ expandSubLists)
       /\ opts = [Opts(intCols, convertSubLists, expandSubLists) EXCEPT
                    !.blankVal = blankVal]
  /\ noConvert \in TagLists
  /\ ret = NoRet /\ Alone
  /\ kind = "none" /\ self = <<>> /\ nops = 0
  /\ last = Call("none", <<>>, "", "", NoColumn, "none")

NextBlank == DoRead \/ DoReadFile

SpecBlank == InitBlank /\ [][NextBlank]_vars

\* reads of tables whose fields are separated by the delimiter passed:
\* blanks for None, commas for ","
JoinWith(fields, sep) ==
  [k \in 1..(2 * Len(fields) - 1) |->
     IF k % 2 = 1 THEN fields[(k + 1) \div 2] ELSE sep]
Delimiters == {NoDelimiter, Comma}
Separator(delimiter) == IF delimiter = NoDelimiter THEN Blank ELSE delimiter

InitComma ==
  /\ \E row \in UNION {[1..n -> Fields] : n \in 1..(MaxInCols - 1)},
        m \in 1..MaxRows, delimiter \in Delimiters,
        intCols \in TagLists, convertSubLists \in BOOLEAN, expandSubLists \in BOOLEAN :
       /\ ~(convertSubLists /\ expandSubLists)
       /\ textLines = [r \in 1..m |-> JoinWith(row, Separator(delimiter))]
       /\ opts = [Opts(intCols, convertSubLists, expandSubLists) EXCEPT
                    !.delimiter = delimiter]
  /\ noConvert = <<>>
  /\ ret = NoRet /\ Alone
  /\ kind = "none" /\ self = <<>> /\ nops = 0
  /\ last = Call("none", <<>>, "", "", NoColumn, "none")

NextComma == DoRead \/ DoReadFile

SpecComma == InitComma /\ [][NextComma]_vars

\* reads of the table "1 2.5 {3,4,5}" / "2 3.5 {6,7,8}": its rows, and its
\* first columns
ExampleRows == <<<<"1", "2.5", "{3,4,5}">>, <<"2", "3.5", "{6,7,8}">>>>
ExampleTables ==
  {[r \in 1..Len(rows) |-> JoinLine(SubSeq(rows[r], 1, n))] :
     rows \in {ExampleRows, <<ExampleRows[1]>>, <<ExampleRows[2]>>},
     n \in 1..Len(ExampleRows[1])}

InitExample ==
  /\ textLines \in ExampleTables
  /\ \E intCols \in TagLists, convertSubLists \in BOOLEAN, expandSubLists \in BOOLEAN :
       /\ ~(convertSubLists /\ expandSubLists)
       /\ opts = Opts(intCols, convertSubLists, expandSubLists)
  /\ noConvert \in TagLists
  /\ ret = NoRet /\ Alone
  /\ kind = "none" /\ self = <<>> /\ nops = 0
  /\ last = Call("none", <<>>, "", "", NoColumn, "none")

NextExample == DoRead \/ DoReadFile

SpecExample == InitExample /\ [][NextExample]_vars

\* reads of a header line that begins with one of the markers, followed by
\* one data row of as many fields, with the skip set and columnRow of the
\* caller's choice
MarkedLine(marker, names) == <<marker, Blank>> \o JoinLine(names)
SkipSets == (SUBSET Markers) \ {{}}
ColumnRows == {VNone, VInt(0), VInt(1)}

InitSkip ==
  /\ \E n \in 1..(MaxInCols - 1) :
       \E names \in [1..n -> HeaderWords], row \in [1..n -> Fields], marker \in Markers :
         textLines = <<MarkedLine(marker, names), JoinLine(row)>>
  /\ \E skip \in SkipSets, columnRow \in ColumnRows, convertSubLists \in BOOLEAN,
        dataFrame \in BOOLEAN :
       opts = [Opts(<<>>, convertSubLists, FALSE) EXCEPT
                 !.skip = skip, !.columnRow = columnRow, !.dataFrame = dataFrame]
  /\ noConvert = <<>>
  /\ ret = NoRet /\ Alone
  /\ kind = "none" /\ self = <<>> /\ nops = 0
  /\ last = Call("none", <<>>, "", "", NoColumn, "none")

NextSkip == DoRead \/ DoReadFile

SpecSkip == InitSkip /\ [][NextSkip]_vars

\* ------------------------------------------------------------- two callers
\* Two callers, each in one call of SetColumns, ChangeColumnName or obj[name]
\* on one of two instances.  A call runs in steps; between two steps of a
\* caller the other caller may step.  The steps of a rebinding call are: the
\* test of ChangeColumnName, the removal of the old definitions, one pass of
\* the binding loop per column, the assignment of colNames, the clean-up of
\* ChangeColumnName.
RaceNames == {"a", "b"}
RaceLists == SeqsUpTo(RaceNames, ShortNames)

\* a caller: op is the call, on the instance (1: self, 2: self2), names the
\* list SetColumns was given, old and new the names of ChangeColumnName (old
\* is the key of obj[name]); pc is the step to take next, i and n the
\* binding loop's counter and range; err and got are the exception and the
\* value the call ended with
Caller(op, on, names, old, new) ==
  [op |-> op, on |-> on, names |-> names, old |-> old, new |-> new,
   pc |-> "call", i |-> 0, n |-> 0, err |-> "none", got |-> VNone]
Calls ==
  {Caller("SetColumns", 1, l, "", "") : l \in RaceLists}
  \cup {Caller("ChangeColumnName", 1, <<>>, o, n) : o \in RaceNames, n \in RaceNames}
  \cup {Caller("GetItem", 1, <<>>, o, "") : o \in RaceNames}

Ended(c, err, got) == [c EXCEPT !.pc = "done", !.err = err, !.got = got]
InCall(c) == c.pc \notin {"call", "done"}

\* a step's outcome: the instance and the caller after it
Stepped(s, c) == [s |-> s, c |-> c]

\* obj[name]
LookupStep(s, c) ==
  LET g == GetItem(s, c.old)
  IN Stepped(s, Ended(c, g.err, g.v))

\* ChangeColumnName up to the call of SetColumns: the test, and newList
CheckStep(s, c) ==
  LET inOld == InColNames(s, c.old)
  IN IF inOld.err # "none" THEN Stepped(s, Ended(c, inOld.err, VNone))
     ELSE IF ~inOld.v THEN Stepped(s, Ended(c, "KeyError", VNone))
     ELSE Stepped(s, [c EXCEPT !.pc = "clear",
                               !.names = ReplaceName(s["colNames"].ns, c.old, c.new)])

\* SetColumns up to the binding loop: the old definitions go, range(self.nCols)
ClearStep(s, c) ==
  LET r1 == ClearOld(s)
  IN IF r1.err # "none" THEN Stepped(r1.s, Ended(c, r1.err, VNone))
     ELSE LET n == RangeNCols(r1.s)
          IN IF n.err # "none" THEN Stepped(r1.s, Ended(c, n.err, VNone))
             ELSE Stepped(r1.s, [c EXCEPT !.pc = IF n.v = 0 THEN "store" ELSE "bind",
                                          !.i = 0, !.n = n.v])

\* a loop that ends the call after its last pass
AfterBind_NoStore(i, n) == IF i < n THEN "bind" ELSE "done"

\* where the binding loop goes after a pass: the next pass, or the
\* assignment of colNames
AfterBind(i, n) == IF i < n THEN "bind" ELSE "store"

\* one pass of the binding loop
BindStep(k, s, c) ==
  LET r == BindOne(k, s, c.names, c.i)
  IN IF r.err # "none" THEN Stepped(r.s, Ended(c, r.err, VNone))
     ELSE Stepped(r.s, [c EXCEPT !.i = c.i + 1, !.pc = AfterBind(c.i + 1, c.n)])

\* self.colNames = columnNames; SetColumns returns
StoreStep(k, s, c) ==
  Stepped(StoreColNames(k, s, c.names),
          IF c.op = "ChangeColumnName" THEN [c EXCEPT !.pc = "pop"]
          ELSE Ended(c, "none", VNone))

\* ChangeColumnName after SetColumns
PopStep(s, c) ==
  LET r == PopOldAttr(s, c.old)
  IN Stepped(r.s, Ended(c, r.err, VNone))

\* the instance a caller works on
Instance(c) == IF c.on = 1 THEN self ELSE self2

\* caller j has taken a step: its instance and its own record change, and
\* the run is mixed when the other caller was in a call
Took(j, st) ==
  /\ IF callers[j].on = 1 THEN self' = st.s /\ self2' = self2
                          ELSE self2' = st.s /\ self' = self
  /\ callers' = [callers EXCEPT ![j] = st.c]
  /\ history' = [history EXCEPT !.mixed = history.mixed \/ InCall(callers[3 - j])]
  /\ UNCHANGED <<kind, last, nops, textLines, opts, noConvert, ret>>

DoLookup(j) ==
  /\ callers[j].pc = "call" /\ callers[j].op = "GetItem"
  /\ Took(j, LookupStep(Instance(callers[j]), callers[j]))

DoCheck(j) ==
  /\ callers[j].pc = "call" /\ callers[j].op = "ChangeColumnName"
  /\ Took(j, CheckStep(Instance(callers[j]), callers[j]))

DoClear(j) ==
  /\ \/ callers[j].pc = "call" /\ callers[j].op = "SetColumns"
     \/ callers[j].pc = "clear"
  /\ Took(j, ClearStep(Instance(callers[j]), callers[j]))

DoBind(j) ==
  /\ callers[j].pc = "bind"
  /\ Took(j, BindStep(kind, Instance(callers[j]), callers[j]))

DoStore(j) ==
  /\ callers[j].pc = "store"
  /\ Took(j, StoreStep(kind, Instance(callers[j]), callers[j]))

DoPop(j) ==
  /\ callers[j].pc = "pop"
  /\ Took(j, PopStep(Instance(callers[j]), callers[j]))

\* two instances built alike, and a call for each caller: the first on
\* self, the second on self or on self2
InitRace ==
  /\ kind \in {"list", "array"}
  /\ nops = 0
  /\ textLines = <<>> /\ opts = NoOpts /\ noConvert = <<>> /\ ret = NoRet
  /\ \E n \in 1..(MaxCols - 1) :
       \E columnNames \in {VNone} \cup {VNames(l) : l \in RaceLists} :
         LET r == New(kind, n, columnNames)
         IN /\ r.err = "none"
            /\ self = r.s /\ self2 = r.s
            /\ history = [frames |-> <<r.s, r.s>>, mixed |-> FALSE]
            /\ last = Call("New", columnNames.ns, "", "", NoColumn, "none")
  /\ \E c1 \in Calls, c2 \in Calls, on \in {1, 2} :
       callers = <<c1, [c2 EXCEPT !.on = on]>>

NextRace ==
  \E j \in {1, 2} :
    \/ DoLookup(j)
    \/ DoCheck(j)
    \/ DoClear(j)
    \/ DoBind(j)
    \/ DoStore(j)
    \/ DoPop(j)

SpecRace == InitRace /\ [][NextRace]_vars

\* ------------------------------------------------------------- properties
Distinct(seq) == \A i, j \in 1..Len(seq) : seq[i] = seq[j] => i = j
Identifiers == {n \in CoreNames : IsIdentifier(n)}
NCols(s) == s["nCols"].ids[1]
ColNames(s) == s["colNames"].ns
\* The frames the documentation has in mind: a name list of distinct
\* identifiers, one per column at most, and only identifiers in the index.
PlainFrame(s) ==
  /\ s["colNames"].t = "names"
  /\ Distinct(ColNames(s))
  /\ Len(ColNames(s)) <= NCols(s)
  /\ \A n \in SeqRange(ColNames(s)) \cup SeqRange(s["dict"].ns) : IsIdentifier(n)
\* the list with the first oldName replaced by newName at the same index
Renamed(names, oldName, newName) ==
  [j \in 1..Len(names) |->
     IF names[j] = oldName /\ \A i \in 1..(j - 1) : names[i] # oldName
     THEN newName ELSE names[j]]

\* C1: after ChangeColumnName(old, new), with new a string other than old,
\* obj[new] is the column that obj[old] was before the call, and old is
\* retrievable neither by name nor as an attribute.  Stated for frames whose
\* names are distinct identifiers.
C1_RenameKeepsColumn ==
  [][ ( /\ last'.op = "ChangeColumnName" /\ last'.err = "none"
        /\ PlainFrame(self)
        /\ IsIdentifier(last'.new) /\ last'.new # last'.old
        /\ GetItem(self, last'.old).err = "none" )
      => ( /\ GetItem(self', last'.new) = GetItem(self, last'.old)
           /\ GetItem(self', last'.old).err = "KeyError"
           /\ ~Has(self', last'.old) ) ]_vars

\* C2: after a successful ChangeColumnName(old, new) the name list is the
\* old one with old replaced by new at its index, so that renaming new
\* again succeeds and renaming old again is a naming error.  Stated for
\* frames whose names are distinct identifiers and a new name not in use.
C2_RenameUpdatesNameList ==
  [][ ( /\ last'.op = "ChangeColumnName" /\ last'.err = "none"
        /\ PlainFrame(self)
        /\ IsIdentifier(last'.new)
        /\ ~InSeq(ColNames(self), last'.new) )
      => ( /\ self'["colNames"] = VNames(Renamed(ColNames(self), last'.old, last'.new))
           /\ \A other \in Identifiers :
                /\ ChangeColumnName(kind, self', last'.new, other).err = "none"
                /\ ChangeColumnName(kind, self', last'.old, other).err = "KeyError" ) ]_vars

\* C3: SetAltColumns is purely additive: every name that obj[name] resolved
\* before the call resolves to the same column after it.  Stated for frames
\* whose names are distinct identifiers and alternative names that are
\* distinct identifiers.
C3_SetAltColumnsAdditive ==
  [][ ( /\ last'.op = "SetAltColumns" /\ last'.err = "none"
        /\ PlainFrame(self)
        /\ Distinct(last'.names)
        /\ \A n \in SeqRange(last'.names) : IsIdentifier(n) )
      => \A n \in Identifiers :
           GetItem(self, n).err = "none" => GetItem(self', n) = GetItem(self, n) ]_vars

\* exactly the first min(nCols, len(names)) names are bound, name i to
\* column i, and nothing else is retrievable by name or as an attribute
BoundExactly(k, s, names) ==
  LET m == IF Len(names) < NCols(s) THEN Len(names) ELSE NCols(s)
  IN /\ SeqRange(s["dict"].ns) = {names[i] : i \in 1..m}
     /\ \A i \in 1..m : DictGet(s["dict"], names[i]) = DataItem(k, s, i - 1).v
     /\ \A a \in (DOMAIN s) \ {"data", "colNames", "dict", "nCols"} :
          \E i \in 1..m : IsStr(names[i]) /\ Split(names[i]) # <<>>
                          /\ a = Head(Split(names[i]))

\* C4: SetColumns on a frame that already has bindings always runs to
\* completion, whatever the names, and leaves exactly the first
\* min(nCols, len(names)) names bound, name i to column i.  Stated for name
\* lists without repeated names, on a frame whose last call returned.
C4_SetColumnsCompletes ==
  [][ ( /\ last'.op = "SetColumns"
        /\ last.err = "none"
        /\ self["dict"].ns # <<>>
        /\ Distinct(last'.names) )
      => ( /\ last'.err = "none"
           /\ BoundExactly(kind, self', last'.names) ) ]_vars

\* C5: AddColumnName(old, new) is a naming error whenever new is already
\* bound to a column (by SetColumns, SetAltColumns or AddColumnName) or old
\* resolves to no column; otherwise it succeeds and obj[new] is the column
\* obj[old] is.  Stated for identifiers, old one of the listed names, on
\* frames whose names are distinct identifiers.
C5_AddColumnNameChecksNames ==
  [][ ( /\ last'.op = "AddColumnName"
        /\ PlainFrame(self)
        /\ InSeq(ColNames(self), last'.old)
        /\ IsIdentifier(last'.old) /\ IsIdentifier(last'.new) )
      => IF DictHas(self["dict"], last'.new) \/ ~DictHas(self["dict"], last'.old)
         THEN last'.err = "KeyError"
         ELSE /\ last'.err = "none"
              /\ GetItem(self', last'.new) = GetItem(self, last'.old) ]_vars

\* C6: when AddColumnName or ChangeColumnName raises a naming error, the
\* instance is exactly as before the call: the index, the attributes, the
\* name list and the storage.
C6_NamingErrorChangesNothing ==
  [][ ( /\ last'.op \in {"AddColumnName", "ChangeColumnName"}
        /\ last'.err = "KeyError" )
      => self' = self ]_vars

\* a naming error for a duplicate new name, on a frame that has bindings
C6_Witness ==
  /\ last.op = "AddColumnName" /\ last.err = "KeyError"
  /\ self["colNames"].t = "names" /\ InSeq(ColNames(self), last.new)
  /\ self["dict"].ns # <<>>

\* C7: AddNewColumn raises a type error for a column that is no list and
\* for a column whose length is not that of the existing columns, and then
\* the append has not run: storage, nCols, name list and index are as before.
C7_BadColumnChangesNothing ==
  [][ ( /\ last'.op = "AddNewColumn"
        /\ (last'.col.type \notin ColumnTypes \/ last'.col.len # RowLen) )
      => ( /\ last'.err = "TypeError"
           /\ self' = self ) ]_vars

\* a column of the wrong length was refused
C7_Witness ==
  /\ last.op = "AddNewColumn" /\ last.err = "TypeError"
  /\ last.col = Column("list", RowLen + 1)

\* C8: on a ListDataFrame with column names, a successful
\* AddNewColumn(column, name) leaves obj[name] the column just appended, the
\* last of the storage.  Stated for a new identifier on frames that list at
\* least one name and whose names are distinct identifiers.
C8_NewColumnGetsItsName ==
  [][ ( /\ last'.op = "AddNewColumn" /\ last'.err = "none"
        /\ last'.new # NoName /\ IsIdentifier(last'.new)
        /\ last.err = "none"
        /\ PlainFrame(self)
        /\ ColNames(self) # <<>>
        /\ ~InSeq(ColNames(self), last'.new) )
      => GetItem(self', last'.new)
           = E(VCol(self'["data"].ids[Len(self'["data"].ids)]), "none") ]_vars

\* C9: after every successful mutation the index and the attributes agree
\* with the storage: every indexed name maps to a column of the storage,
\* and every indexed identifier is an attribute holding the same column.
C9_IndexMatchesAttributes ==
  last.err = "none" =>
    \A i \in 1..Len(self["dict"].ns) :
      LET n == self["dict"].ns[i]
          c == self["dict"].vs[i]
      IN /\ c.t = "col" /\ c.ids[1] \in SeqRange(self["data"].ids)
         /\ IsIdentifier(n) => (Has(self, n) /\ self[n] = c)

\* the fields of original column i (0-based), as read
RawColumn(lines, i) ==
  Col("strings", [r \in 1..Len(lines) |-> SplitLine(lines[r])[i + 1]], <<>>)

\* column i is a SubList column: not designated by the caller, row 0 is no
\* number and holds a brace
IsSubListCol(lines, o, nc, i) ==
  LET x == SplitLine(lines[1])[i + 1]
  IN ~InSeq(o.intCols, i) /\ ~InSeq(nc, i) /\ ~IsNumber(x) /\ HasBrace(x)
SubListLen(lines, i) == Len(SplitComma(SplitLine(lines[1])[i + 1]))

\* what original column i contributes to the expanded table
Piece(lines, o, nc, i) ==
  IF InSeq(o.intCols, i) THEN <<ToInt(RawColumn(lines, i)).v>>
  ELSE IF InSeq(nc, i) THEN <<RawColumn(lines, i)>>
  ELSE IF IsSubListCol(lines, o, nc, i)
  THEN ExtractSubLists(RawColumn(lines, i), SubListLen(lines, i)).v
  ELSE IF IsNumber(SplitLine(lines[1])[i + 1])
  THEN <<ColumnToFloats(RawColumn(lines, i), o.blankVal)>>
  ELSE <<RawColumn(lines, i)>>

RECURSIVE Pieces(_, _, _, _)
Pieces(lines, o, nc, n) ==
  IF n = 0 THEN <<>>
  ELSE Pieces(lines, o, nc, n - 1) \o Piece(lines, o, nc, n - 1)

RECURSIVE Extra(_, _, _, _)
Extra(lines, o, nc, n) ==
  IF n = 0 THEN 0
  ELSE Extra(lines, o, nc, n - 1)
       + (IF IsSubListCol(lines, o, nc, n - 1) THEN SubListLen(lines, n - 1) - 1 ELSE 0)

\* C10: a read with expansion that returns gives, for the original columns
\* in their order, the n sub-arrays of each SubList(n) column in sub-list
\* order and every other column converted by its own tag, each at the place
\* of its original column; the result has nInputCols + sum(n_i - 1) columns.
C10_ExpansionKeepsOrder ==
  [][ ( /\ ~ret.done /\ ret'.done
        /\ ret'.err = "none"
        /\ opts.expandSubLists )
      => LET nInputCols == Len(SplitLine(textLines[1]))
         IN /\ ret'.cols = Pieces(textLines, opts, noConvert, nInputCols)
            /\ Len(ret'.cols)
                 = nInputCols + Extra(textLines, opts, noConvert, nInputCols) ]_vars

\* two adjacent two-element sub-list columns were expanded and the column
\* after them, two rows long, was converted at its shifted place
C10_Witness ==
  /\ ret.done /\ ret.err = "none" /\ opts.expandSubLists
  /\ Len(textLines) >= 2
  /\ SplitLine(textLines[1]) = <<"{3,4}", "{3,4}", "1">>
  /\ Len(ret.cols) = 5
  /\ ret.cols[5] = Col("float", [r \in 1..Len(textLines) |-> "1.0"], <<>>)

\* the names the header's name i (0-based) stands for after expansion
NamesFor(header, dlines, o, nc, i) ==
  IF IsSubListCol(dlines, o, nc, i)
  THEN LET n == SubListLen(dlines, i)
           suffixes == IF o.subListSuffixes.t # "None" /\ Len(o.subListSuffixes.ns) = n
                       THEN o.subListSuffixes.ns
                       ELSE [k \in 1..n |-> ToString(k - 1)]
       IN [k \in 1..n |-> header[i + 1] \o "_" \o suffixes[k]]
  ELSE <<header[i + 1]>>

RECURSIVE ExpandedNames(_, _, _, _, _)
ExpandedNames(header, dlines, o, nc, n) ==
  IF n = 0 THEN <<>>
  ELSE ExpandedNames(header, dlines, o, nc, n - 1) \o NamesFor(header, dlines, o, nc, n - 1)

\* C11: a read with expansion and a header of one name per column, all
\* different, that returns leaves, for the original columns in their order, the n names
\* orig_<suffix> of each SubList(n) column (the caller's suffixes when
\* exactly n are given, else 0..n-1) and the own name of every other column,
\* so that there is one name per column of the expanded table.
C11_NamesFollowColumns ==
  [][ ( /\ ~ret.done /\ ret'.done
        /\ ret'.err = "none"
        /\ opts.expandSubLists
        /\ ret'.colNames.t # "None" )
      => LET dlines == DataLines(textLines, opts.skip)
             header == SplitLine(Strip(textLines[opts.columnRow.ids[1] + 1], opts.skip))
         IN (Len(header) = Len(SplitLine(dlines[1])) /\ Distinct(header))
            => /\ ret'.colNames.ns
                    = ExpandedNames(header, dlines, opts, noConvert, Len(header))
               /\ Len(ret'.colNames.ns) = Len(ret'.cols) ]_vars

\* the tag of original column i (0-based), from row 0 and the caller's
\* designations alone
Tag(lines, o, nc, i) ==
  LET x == SplitLine(lines[1])[i + 1]
  IN IF InSeq(o.intCols, i) THEN "Integer"
     ELSE IF InSeq(nc, i) THEN "Verbatim"
     ELSE IF IsNumber(x) THEN "Float"
     ELSE IF (o.convertSubLists \/ o.expandSubLists) /\ HasBrace(x) THEN "SubList"
     ELSE "Verbatim"

\* the exception of converting column i by its tag
TagError(lines, o, nc, i) ==
  CASE Tag(lines, o, nc, i) = "Integer" -> ToInt(RawColumn(lines, i)).err
    [] Tag(lines, o, nc, i) = "SubList"
         -> ExtractSubLists(RawColumn(lines, i), SubListLen(lines, i)).err
    [] OTHER -> "none"

\* column i converted by its tag, as the columns it gives: one, or the n
\* float arrays of a SubList(n) column when sub-lists are expanded
ByTag(lines, o, nc, i) ==
  LET raw == RawColumn(lines, i)
      arrays == ExtractSubLists(raw, SubListLen(lines, i)).v
  IN CASE Tag(lines, o, nc, i) = "Integer" -> <<ToInt(raw).v>>
       [] Tag(lines, o, nc, i) = "Verbatim" -> <<raw>>
       [] Tag(lines, o, nc, i) = "Float"
            -> <<Col("float",
                     [r \in 1..Len(lines) |->
                        IF IsNumber(raw.cells[r]) THEN FloatOf(raw.cells[r])
                        ELSE o.blankVal],
                     <<>>)>>
       [] OTHER -> IF o.expandSubLists THEN arrays
                   ELSE <<Col("arrays", <<>>, [k \in 1..Len(arrays) |-> arrays[k].cells])>>

RECURSIVE AllByTag(_, _, _, _)
AllByTag(lines, o, nc, n) ==
  IF n = 0 THEN <<>>
  ELSE AllByTag(lines, o, nc, n - 1) \o ByTag(lines, o, nc, n - 1)

BadInteger(lines, i) ==
  \E r \in 1..Len(lines) : IntOf(RawColumn(lines, i).cells[r]) = NotANumber

\* some row of column i has, among the first n elements of its sub-list,
\* one that does not parse; TooShort: a row with fewer than n elements
BadElement(lines, i) ==
  \E r \in 1..Len(lines) :
    LET pp == BareParts(RawColumn(lines, i).cells[r])
    IN \E k \in 1..SubListLen(lines, i) : k <= Len(pp) /\ ~IsNumber(pp[k])
TooShort(lines, i) ==
  \E r \in 1..Len(lines) :
    Len(BareParts(RawColumn(lines, i).cells[r])) < SubListLen(lines, i)

OuterFields(line) == SelectSeq(line, LAMBDA tok : tok \notin {Blank, Comma})

\* C14: with either delimiter a read without expansion that returns has one
\* column per outer field of row 0, a field {v1,...,vn} counting as one; with
\* sub-list conversion on, the column of such a field (not designated by the
\* caller) holds its n arrays.
C14_SubListIsOneField ==
  [][ (~ret.done /\ ret'.done /\ ret'.err = "none" /\ ~opts.expandSubLists)
      => LET fields == OuterFields(textLines[1])
         IN /\ Len(ret'.cols) = Len(fields)
            /\ \A i \in 1..Len(fields) :
                 ( /\ opts.convertSubLists /\ HasBrace(fields[i])
                   /\ ~InSeq(opts.intCols, i - 1) /\ ~InSeq(noConvert, i - 1) )
                 => /\ ret'.cols[i].t = "arrays"
                    /\ Len(ret'.cols[i].subs) = Len(BareParts(fields[i])) ]_vars

\* C15: a read without expansion that returns gives, for a SubList(n)
\* column, n float arrays as long as the table, array k holding at row r the
\* k-th value of row r's field, and every row's field has exactly n values.
C15_SubListKeepsEveryValue ==
  [][ (~ret.done /\ ret'.done /\ ret'.err = "none" /\ ~opts.expandSubLists)
      => \A i \in 0..(Len(SplitLine(textLines[1])) - 1) :
           Tag(textLines, opts, noConvert, i) = "SubList"
             => LET n == SubListLen(textLines, i)
                    raw == RawColumn(textLines, i).cells
                    c == ret'.cols[i + 1]
                IN /\ c.t = "arrays" /\ Len(c.subs) = n
                   /\ \A k \in 1..n :
                        /\ Len(c.subs[k]) = Len(textLines)
                        /\ \A r \in 1..Len(textLines) :
                             c.subs[k][r] = FloatOf(BareParts(raw[r])[k])
                   /\ \A r \in 1..Len(textLines) : Len(BareParts(raw[r])) = n ]_vars

\* the read of the two example lines with sub-list conversion on, no
\* expansion and the other arguments at their defaults
ExampleRead ==
  /\ textLines = [r \in 1..2 |-> JoinLine(ExampleRows[r])]
  /\ opts = Opts(<<>>, TRUE, FALSE)
  /\ noConvert = <<>>
  /\ ~ret.done /\ ret'.done /\ ret'.by = "text"

\* columns 1 and 2 of the example's result
ExampleTail ==
  <<Col("float", <<"2.5", "3.5">>, <<>>),
    Col("arrays", <<>>, <<<<"3.0", "6.0">>, <<"4.0", "7.0">>, <<"5.0", "8.0">>>>)>>

\* C16, as claimed: the example read yields the Integer column [1,2], the
\* Float column [2.5,3.5] and the list of arrays [[3,6],[4,7],[5,8]].
C16_ExampleAsClaimed ==
  [][ ExampleRead
      => /\ ret'.err = "none"
         /\ ret'.cols = <<Col("int", <<"1", "2">>, <<>>)>> \o ExampleTail ]_vars

\* C16: the example read yields 3 columns: the Float column [1.0,2.0], the
\* Float column [2.5,3.5] and the 3-element list of arrays
\* [[3,6],[4,7],[5,8]].
C16_Example ==
  [][ ExampleRead
      => /\ ret'.err = "none"
         /\ ret'.cols = <<Col("float", <<"1.0", "2.0">>, <<>>)>> \o ExampleTail ]_vars

\* the example has been read
C16_Witness ==
  /\ textLines = [r \in 1..2 |-> JoinLine(ExampleRows[r])]
  /\ opts = Opts(<<>>, TRUE, FALSE)
  /\ ret.done /\ ret.by = "text" /\ ret.err = "none"
  /\ Len(ret.cols) = 3 /\ ret.cols[3].t = "arrays"
  /\ noConvert = <<>>

\* C17: a read by either reader ends as the other reader's read of the same
\* lines with the same arguments: the same exception or, when it returns,
\* the same columns and header names, and the same noConvert list.
C17_ReadersAgree ==
  [][ (~ret.done /\ ret'.done)
      => LET twin == IF ret'.by = "text"
                      THEN ReadCompositeTable(textLines, opts, noConvert)
                      ELSE ReadCompositeTableFromText(textLines, opts, noConvert)
         IN /\ ret'.err = twin.err
            /\ noConvert' = twin.noConvert
            /\ ret'.err = "none"
                 => /\ ret'.cols = twin.cols
                    /\ ret'.colNames = twin.colNames ]_vars

\* C20: a read leaves the caller's noConvert list as it was (intCols and
\* the other arguments are never assigned), so that a later read passed the
\* same list tags its columns as it would alone.
C20_ReadKeepsArguments ==
  [][ (~ret.done /\ ret'.done) => (noConvert' = noConvert /\ opts' = opts) ]_vars

\* the frame's own fields are what the constructor made them: data the
\* column storage, nCols its length, dict a name index onto its columns,
\* colNames None or a list of names
FieldsIntact(s) ==
  /\ Has(s, "data") /\ s["data"].t \in {"list", "array"}
  /\ Has(s, "nCols") /\ s["nCols"] = VInt(Len(s["data"].ids))
  /\ Has(s, "dict") /\ s["dict"].t = "dict"
  /\ \A i \in 1..Len(s["dict"].vs) :
       s["dict"].vs[i].t = "col" /\ s["dict"].vs[i].ids[1] \in SeqRange(s["data"].ids)
  /\ Has(s, "colNames") /\ s["colNames"].t \in {"None", "names"}

\* C19: a call of SetColumns, SetAltColumns, AddColumnName or
\* ChangeColumnName on a frame whose fields are intact leaves data the same
\* storage and the fields intact.
C19_BindingKeepsFields ==
  [][ ( /\ last'.op \in {"SetColumns", "SetAltColumns", "AddColumnName", "ChangeColumnName"}
        /\ nops' = nops + 1
        /\ FieldsIntact(self) )
      => /\ self'["data"] = self["data"]
         /\ FieldsIntact(self') ]_vars

\* a call run from its beginning to its end with no other caller: the
\* instance it leaves, its exception and its value
Alone_Call(k, s, c) ==
  CASE c.op = "SetColumns"
         -> LET r == SetColumns(k, s, c.names) IN [s |-> r.s, err |-> r.err, got |-> VNone]
    [] c.op = "ChangeColumnName"
         -> LET r == ChangeColumnName(k, s, c.old, c.new)
            IN [s |-> r.s, err |-> r.err, got |-> VNone]
    [] OTHER
         -> LET g == GetItem(s, c.old) IN [s |-> s, err |-> g.err, got |-> g.v]

\* what the two calls leave on one instance when first runs whole, then
\* second: the instance and the two outcomes, caller 1's first
Serial(k, s, first, second, firstIsOne) ==
  LET a == Alone_Call(k, s, first)
      b == Alone_Call(k, a.s, second)
  IN IF firstIsOne THEN <<b.s, a.err, a.got, b.err, b.got>>
     ELSE <<b.s, b.err, b.got, a.err, a.got>>

SerialOutcomes ==
  {Serial(kind, history.frames[1], callers[1], callers[2], TRUE),
   Serial(kind, history.frames[1], callers[2], callers[1], FALSE)}

Outcome1 ==
  <<self, callers[1].err, callers[1].got, callers[2].err, callers[2].got>>

BothDone == callers[1].pc = "done" /\ callers[2].pc = "done"

\* C18: when both calls have ended: on distinct instances, each instance and
\* each outcome is what the call gives run alone on that instance, however
\* the steps were interleaved; on one instance, a run in which neither
\* caller stepped while the other was in a call ends as one of the two
\* serial executions.  (That an interleaved run on one instance can end as
\* neither is the reachable state C18_Witness.)
C18_OnlySharedInterleavingsDiffer ==
  BothDone
    => /\ callers[2].on = 2
            => /\ LET a == Alone_Call(kind, history.frames[1], callers[1])
                  IN self = a.s /\ callers[1].err = a.err /\ callers[1].got = a.got
               /\ LET b == Alone_Call(kind, history.frames[2], callers[2])
                  IN self2 = b.s /\ callers[2].err = b.err /\ callers[2].got = b.got
       /\ callers[2].on = 1
            => /\ self2 = history.frames[2]
               /\ ~history.mixed => Outcome1 \in SerialOutcomes

\* two rebinding calls on one list frame, interleaved, have both returned
\* and left a state that neither serial execution leaves: the name index
\* holds a name that the stored name list does not
C18_Witness ==
  /\ BothDone /\ callers[2].on = 1 /\ history.mixed
  /\ callers[1].op # "GetItem" /\ callers[2].op # "GetItem"
  /\ callers[1].err = "none" /\ callers[2].err = "none"
  /\ Outcome1 \notin SerialOutcomes
  /\ kind = "list"
  /\ \E x \in SeqRange(self["dict"].ns) : ~InSeq(self["colNames"].ns, x)

====
